---- MODULE Spec2Model ----
(***************************************************************************)
(* State-machine model of src/indexation/elasticSearch.helpers.ts:         *)
(* the chunked bulk dispatcher (bulkIndexByChunks / request), the write    *)
(* sink and pipeline driver (getWritableParserAndIndexer /                 *)
(* streamReadAndIndex) and the index roll-over (createIndexRelease /       *)
(* finalizeNewIndexRelease) against an Elasticsearch cluster holding the   *)
(* generations of one alias.                                               *)
(*                                                                         *)
(* JavaScript runs one task at a time: a handler runs to its next await    *)
(* without interleaving, and a continuation whose awaited promise is       *)
(* already settled runs (as a microtask) before any I/O event is handled.  *)
(* The I/O events of the model are therefore guarded by ~MainRunnable.     *)
(* The activations of request() that a run leaves unresolved are dropped   *)
(* from the state when the next run starts: they change nothing any more.  *)
(*                                                                         *)
(* What the program sends and logs is kept as history (the journal of the  *)
(* call running, the log of each activation of request()) in the           *)
(* specifications that observe it (tracing); it is read by no handler.     *)
(***************************************************************************)
EXTENDS Integers, Sequences, FiniteSets, TLC

VARIABLES
    \* ---- cluster -------------------------------------------------------
    indices,                \* generations (index names) existing on the cluster
    aliasBound,             \* generations the alias is bound to
    prodSettings,           \* generations carrying the final (production) settings
    now,                    \* Date.now()
    \* ---- configuration (read-only during a behaviour) -------------------
    pjsonVersion,           \* pjson.version
    CHUNK_SIZE,             \* CHUNK_SIZE
    envMaxConcurrent,       \* process.env.TD_SIRENE_INDEX_MAX_CONCURRENT_REQUESTS
    dataFormatterFn,        \* indexConfig.dataFormatterFn is a function
    transformCsv,           \* indexConfig.transformCsv is supplied
    tracing,                \* the history below (journal, log of a call) is recorded
    \* ---- streamReadAndIndex / finalizeNewIndexRelease -------------------
    runPc,                  \* position of the run
    indexName,              \* indexName argument of the run
    isReleaseIndexation,    \* isReleaseIndexation argument of the run
    unread,                 \* number of rows of the CSV not yet parsed
    source,                 \* rows parsed and transformed, waiting for the sink
    bindedIndexes,          \* local of finalizeNewIndexRelease
    oldIndices,             \* local of finalizeNewIndexRelease (after pop)
    journal,                \* history: what the call running of createIndexRelease
                            \* or of writev was handed, has requested and has logged
    \* ---- bulkIndexByChunks ----------------------------------------------
    pc,                     \* position of bulkIndexByChunks
    body,                   \* body argument
    i,                      \* loop variable i
    promises,               \* promises (indexes into calls)
    numberOfChunkRequests,  \* in-flight counter
    awaited,                \* call awaited at lines 241 / 270
    batchBase,              \* calls[batchBase+1..] are the calls of this batch
    \* ---- request --------------------------------------------------------
    calls                   \* activations of request() of the run, in the order started

clusterVars == <<indices, aliasBound, prodSettings, now>>
configVars  == <<pjsonVersion, CHUNK_SIZE, envMaxConcurrent, dataFormatterFn, transformCsv,
                 tracing>>
runVars     == <<runPc, indexName, isReleaseIndexation, unread, source,
                 bindedIndexes, oldIndices, journal>>
bulkVars    == <<pc, body, i, promises, numberOfChunkRequests, awaited, batchBase>>
vars        == <<clusterVars, configVars, runVars, bulkVars, calls>>

----------------------------------------------------------------------------
(* Bounds *)
MaxBody      == 5     \* longest body handed to bulkIndexByChunks directly
MaxChunkSize == 2     \* largest CHUNK_SIZE
MaxCap       == 3     \* largest numeric TD_SIRENE_INDEX_MAX_CONCURRENT_REQUESTS
MaxVersion   == 2     \* number of pipeline versions
MaxStamp     == 2     \* latest timestamp of the generations present initially
MaxInitial   == 3     \* most generations present initially
MaxSource    == 2     \* longest record source of a pipeline run

\* the clock stops after one more tick than the initial timestamps
MaxClock == MaxStamp + 1

----------------------------------------------------------------------------
(* Index names *)

\* `${alias}-${pjson.version}-${Date.now()}`: the alias is fixed, so a name is
\* its version part and its timestamp part.
getIndexVersionName(version, time) == [ver |-> version, ts |-> time]

NoIndex == [ver |-> 0, ts |-> 0]

\* Array.prototype.sort() without comparator: order of the strings. The
\* versions and the timestamps of the model are numerals of one width, so
\* the string order is the order of (version, timestamp).
NameLess(a, b) == \/ a.ver < b.ver
                  \/ a.ver = b.ver /\ a.ts < b.ts

RECURSIVE SortNames(_)
SortNames(S) ==
    IF S = {} THEN <<>>
    ELSE LET m == CHOOSE x \in S : \A y \in S : y = x \/ NameLess(x, y)
         IN  <<m>> \o SortNames(S \ {m})

\* array.pop() applied for its effect: the array without its last element
Pop(s) == IF Len(s) = 0 THEN s ELSE SubSeq(s, 1, Len(s) - 1)

Range(s) == {s[x] : x \in 1..Len(s)}

----------------------------------------------------------------------------
(* Configuration *)

\* Values of process.env.TD_SIRENE_INDEX_MAX_CONCURRENT_REQUESTS: not set,
\* a text parseInt cannot read, or a numeral.
EnvUnset  == [kind |-> "unset", val |-> 0]
EnvText   == [kind |-> "text",  val |-> 0]
EnvInt(n) == [kind |-> "int",   val |-> n]
EnvValues == {EnvUnset, EnvText} \cup {EnvInt(n) : n \in 0..MaxCap}

\* isNaN(parseInt(env || "1", 10)) ? 2 : parseInt(env || "1", 10)
maxConcurrentRequests(env) ==
    IF env.kind = "unset" THEN 1
    ELSE IF env.kind = "text" THEN 2
    ELSE env.val

M == maxConcurrentRequests(envMaxConcurrent)

----------------------------------------------------------------------------
(* Records and write actions *)

\* A record of the CSV is modelled by the value of its idKey column.
Undefined   == -1      \* the column is absent: doc[idKey] === undefined
EmptyString == 0       \* the column is the empty string: !doc[idKey].length
IdKey       == 1       \* the value is the name of the column (header line)
FirstId     == 2       \* real identifiers are FirstId, FirstId + 1, ...

Doc(v) == [id |-> v]

\* element of the bulk body built by writev: [ {index: {...}}, doc ]
WriteAction(doc, name) ==
    << [_id |-> doc.id, _index |-> name, _type |-> "_doc"], doc >>

\* (variant of ParseLines with a slip: the header line is not set aside)
RECURSIVE ParseLinesKeepsHeader(_, _)
ParseLinesKeepsHeader(csvLines, name) ==
    IF csvLines = <<>> THEN <<>>
    ELSE LET doc  == Head(csvLines)
             rest == ParseLinesKeepsHeader(Tail(csvLines), name)
         IN  IF doc.id = Undefined \/ doc.id = EmptyString THEN rest
             ELSE <<WriteAction(doc, name)>> \o rest

\* csvLines.map(...) followed by body.filter(line => line !== null)
RECURSIVE ParseLines(_, _)
ParseLines(csvLines, name) ==
    IF csvLines = <<>> THEN <<>>
    ELSE LET doc  == Head(csvLines)
             rest == ParseLines(Tail(csvLines), name)
         IN  IF doc.id = Undefined \/ doc.id = EmptyString THEN rest
             ELSE IF doc.id = IdKey THEN rest
             ELSE <<WriteAction(doc, name)>> \o rest

\* lines 295-303: logger.error(`skipping malformed csv line ${i} ...`, doc)
\* for the lines i, i + 1, ... of csvLines
RECURSIVE SkipLogs(_, _)
SkipLogs(csvLines, line) ==
    IF csvLines = <<>> THEN <<>>
    ELSE LET doc == Head(csvLines)
         IN  (IF doc.id = Undefined \/ doc.id = EmptyString
              THEN <<[t |-> "skip", line |-> line, doc |-> doc]>>
              ELSE <<>>)
             \o SkipLogs(Tail(csvLines), line + 1)

\* body.flat(): [meta1, doc1, meta2, doc2, ...]
RECURSIVE Flat(_)
Flat(chunk) ==
    IF chunk = <<>> THEN <<>>
    ELSE <<Head(chunk)[1], Head(chunk)[2]>> \o Flat(Tail(chunk))

\* body.slice(lo, hi), 0-based, hi exclusive and clipped to the length
Slice(b, lo, hi) ==
    SubSeq(b, lo + 1, IF hi > Len(b) THEN Len(b) ELSE hi)

----------------------------------------------------------------------------
(* request(): one activation per element of calls *)

Statuses == {201, 409, 429}

\* index (0-based, as k in logBulkErrorsAndRetry) of the first item at or
\* after k whose status is 429, or Len(items) when there is none
RECURSIVE NextRetry(_, _)
NextRetry(items, k) ==
    IF k >= Len(items) THEN Len(items)
    ELSE IF items[k + 1] = 429 THEN k
    ELSE NextRetry(items, k + 1)

\* requestBulkIndex(body): nothing to index resolves at once, otherwise
\* client.bulk is in flight
RequestBulkIndex(flat) ==
    IF Len(flat) = 0 THEN "done" ELSE "bulk"

\* body[p] of the flat body, p counted from 0 as in the source
BodyAt(flat, p) == flat[p + 1]

NoStatus == 0
NoId     == 0
NoDoc    == Doc(Undefined)

\* what an activation of request() sends or logs after client.bulk
Effect(t, id, status, doc) == [t |-> t, id |-> id, status |-> status, body |-> doc]

\* (variant of IndexRequest with a slip: the document of the first action)
IndexRequestFirstDoc(flat, k) ==
    Effect("index", BodyAt(flat, k * 2)._id, NoStatus, BodyAt(flat, 1))

\* lines 147-153: client.index({index, id: body[k * 2].index?._id,
\* body: body[k * 2 + 1], ...})
IndexRequest(flat, k) ==
    Effect("index", BodyAt(flat, k * 2)._id, NoStatus, BodyAt(flat, k * 2 + 1))

\* lines 142-146: logger.warn(`Retrying index operation for doc ...`)
RetryWarning(flat, k) ==
    Effect("warn", BodyAt(flat, k * 2)._id, NoStatus, NoDoc)

\* lines 155-160: logger.error(`Error retrying index operation for doc ...`)
RetryError(flat, k) ==
    Effect("retryError", BodyAt(flat, k * 2)._id, NoStatus, NoDoc)

\* lines 164-171: logger.error(`Error in bulkIndex operation`,
\* {status, error, body: body[k * 2 + 1]}); the error goes with the status
BulkItemError(flat, items, k) ==
    Effect("bulkError", NoId, items[k + 1], BodyAt(flat, k * 2 + 1))

\* lines 207-210: logger.error(`Fatal error bulk-indexing to index ...`)
FatalError == Effect("fatal", NoId, NoStatus, NoDoc)

\* (variant of ScanLog with a slip: only the items to retry are looked at)
ScanLogRetryOnly(flat, items, from, stop) ==
    IF stop < Len(items)
    THEN <<RetryWarning(flat, stop), IndexRequest(flat, stop)>>
    ELSE <<>>

\* lines 133-171 for the items from..stop-1, none of which has status 429,
\* and, when item stop exists, up to the client.index of item stop
RECURSIVE ScanLog(_, _, _, _)
ScanLog(flat, items, from, stop) ==
    IF from >= stop
    THEN IF stop < Len(items)
         THEN <<RetryWarning(flat, stop), IndexRequest(flat, stop)>>
         ELSE <<>>
    ELSE (IF items[from + 1] # 201 THEN <<BulkItemError(flat, items, from)>> ELSE <<>>)
         \o ScanLog(flat, items, from + 1, stop)

\* the history of an activation is recorded when tracing
Emit(log, effects) == IF tracing THEN log \o effects ELSE log

\* lines 196-200: client.bulk({body, ...}), when there is something to index
BulkRequest(flat) ==
    IF RequestBulkIndex(flat) = "bulk"
    THEN <<Effect("bulk", NoId, NoStatus, NoDoc)>>
    ELSE <<>>

\* request(indexName, indexConfig, bodyChunk) up to its first await
NewRequest(bodyChunk) ==
    [ slice |-> bodyChunk,
      st    |-> IF dataFormatterFn THEN "fmt" ELSE RequestBulkIndex(Flat(bodyChunk)),
      items |-> <<>>,
      k     |-> 0,
      log   |-> IF dataFormatterFn THEN <<>> ELSE Emit(<<>>, BulkRequest(Flat(bodyChunk))) ]

Resolved(c) == calls[c].st = "done"

----------------------------------------------------------------------------
(* Scheduling: the main task (bulkIndexByChunks and its caller) can run *)

MainRunnable ==
    \/ pc = "loop"
    \/ pc = "single" /\ Resolved(awaited)
    \/ pc = "seq"    /\ Resolved(awaited)
    \/ pc = "race"   /\ \E p \in Range(promises) : Resolved(p)
    \/ pc = "all"    /\ \A p \in Range(promises) : Resolved(p)
    \/ pc = "resolved" /\ runPc = "streaming"

----------------------------------------------------------------------------
(* bulkIndexByChunks *)

Unresolved == SelectSeq(calls, LAMBDA r : r.st # "done")

\* Entry of bulkIndexByChunks(b, indexConfig, indexName), up to its first
\* await (line 241) or to the head of the loop (line 256). The activations
\* of request() that resolved in earlier batches are no longer referenced.
BulkStart(b) ==
    /\ body' = b
    /\ batchBase' = Len(Unresolved)
    /\ promises' = <<>>
    /\ numberOfChunkRequests' = 0
    /\ i' = 0
    /\ IF CHUNK_SIZE > Len(b)
       THEN /\ calls' = Append(Unresolved, NewRequest(b))
            /\ awaited' = Len(Unresolved) + 1
            /\ pc' = "single"
       ELSE /\ calls' = Unresolved
            /\ awaited' = 0
            /\ pc' = "loop"

\* line 241 resumes: await request(...); return
SingleResumes ==
    /\ pc = "single"
    /\ Resolved(awaited)
    /\ pc' = "resolved"
    /\ UNCHANGED <<clusterVars, configVars, runVars, calls,
                   body, i, promises, numberOfChunkRequests, awaited, batchBase>>

\* One iteration of the for loop (lines 256-271) up to its await, or the
\* exit of the loop (lines 273-275) up to its await.
LoopStep ==
    /\ pc = "loop"
    /\ IF i < Len(body)
       THEN LET slice == Slice(body, i, i + CHUNK_SIZE)
                c     == Len(calls) + 1
            IN  IF M > 1
                THEN /\ calls' = Append(calls, NewRequest(slice))
                     /\ promises' = Append(promises, c)
                     /\ numberOfChunkRequests' = numberOfChunkRequests + 1
                     /\ IF numberOfChunkRequests + 1 >= M
                        THEN pc' = "race" /\ i' = i
                        ELSE pc' = "loop" /\ i' = i + CHUNK_SIZE
                     /\ UNCHANGED awaited
                ELSE \* line 259 has started request(slice); line 270 starts it again
                     /\ calls' = calls \o <<NewRequest(slice), NewRequest(slice)>>
                     /\ awaited' = c + 1
                     /\ pc' = "seq"
                     /\ UNCHANGED <<promises, numberOfChunkRequests, i>>
       ELSE /\ pc' = IF Len(promises) > 0 THEN "all" ELSE "resolved"
            /\ UNCHANGED <<calls, promises, numberOfChunkRequests, awaited, i>>
    /\ UNCHANGED <<clusterVars, configVars, runVars, body, batchBase>>

\* line 266 resumes: Promise.race(promises) settles as soon as one element of
\* promises is settled, whether it settled now or during an earlier wait
RaceResumes ==
    /\ pc = "race"
    /\ \E p \in Range(promises) : Resolved(p)
    /\ numberOfChunkRequests' = numberOfChunkRequests - 1
    /\ i' = i + CHUNK_SIZE
    /\ pc' = "loop"
    /\ UNCHANGED <<clusterVars, configVars, runVars, calls,
                   body, promises, awaited, batchBase>>

\* line 270 resumes
SeqResumes ==
    /\ pc = "seq"
    /\ Resolved(awaited)
    /\ i' = i + CHUNK_SIZE
    /\ pc' = "loop"
    /\ UNCHANGED <<clusterVars, configVars, runVars, calls,
                   body, promises, numberOfChunkRequests, awaited, batchBase>>

\* line 274 resumes: Promise.all(promises)
AllResumes ==
    /\ pc = "all"
    /\ \A p \in Range(promises) : Resolved(p)
    /\ pc' = "resolved"
    /\ UNCHANGED <<clusterVars, configVars, runVars, calls,
                   body, i, promises, numberOfChunkRequests, awaited, batchBase>>

----------------------------------------------------------------------------
(* request: events of the cluster client *)

SetCall(c, r) == calls' = [calls EXCEPT ![c] = r]

\* lines 221-225: the data formatter returns; the chunk it returns is sent
FormatterReturns(c) ==
    /\ ~MainRunnable
    /\ calls[c].st = "fmt"
    /\ SetCall(c, [calls[c] EXCEPT !.st = RequestBulkIndex(Flat(calls[c].slice)),
                                   !.log = Emit(@, BulkRequest(Flat(calls[c].slice)))])
    /\ UNCHANGED <<clusterVars, configVars, runVars, bulkVars>>

\* (variant of BulkFails with a slip: the failure, logged, is thrown again)
BulkFailsRejects(c) ==
    /\ ~MainRunnable
    /\ calls[c].st = "bulk"
    /\ SetCall(c, [calls[c] EXCEPT !.st = "rejected",
                                   !.log = Emit(@, <<FatalError>>)])
    /\ UNCHANGED <<clusterVars, configVars, runVars, bulkVars>>

\* lines 205-212: client.bulk fails as a whole; logged, request resolves
BulkFails(c) ==
    /\ ~MainRunnable
    /\ calls[c].st = "bulk"
    /\ SetCall(c, [calls[c] EXCEPT !.st = "done",
                                   !.log = Emit(@, <<FatalError>>)])
    /\ UNCHANGED <<clusterVars, configVars, runVars, bulkVars>>

\* lines 196-204 and 132-153: client.bulk answers one item per action;
\* logBulkErrorsAndRetry runs up to its first client.index, or to its end
BulkResponds(c, items) ==
    /\ ~MainRunnable
    /\ calls[c].st = "bulk"
    /\ LET k    == NextRetry(items, 0)
           flat == Flat(calls[c].slice)
           log  == Emit(calls[c].log, ScanLog(flat, items, 0, k))
       IN  IF k < Len(items)
           THEN SetCall(c, [calls[c] EXCEPT !.st = "retry", !.items = items, !.k = k,
                                            !.log = log])
           ELSE SetCall(c, [calls[c] EXCEPT !.st = "done", !.log = log,
                                            !.items = IF tracing THEN items ELSE <<>>])
    /\ UNCHANGED <<clusterVars, configVars, runVars, bulkVars>>

\* lines 147-174: client.index of item k answers (ok) or fails (caught and
\* logged); the item is logged as an error of the bulk call and the loop
\* goes on to the next item with status 429
RetryReturns(c, ok) ==
    /\ ~MainRunnable
    /\ calls[c].st = "retry"
    /\ LET items == calls[c].items
           k0    == calls[c].k
           k     == NextRetry(items, k0 + 1)
           flat  == Flat(calls[c].slice)
           log   == Emit(calls[c].log,
                         (IF ok THEN <<>> ELSE <<RetryError(flat, k0)>>)
                         \o <<BulkItemError(flat, items, k0)>>
                         \o ScanLog(flat, items, k0 + 1, k))
       IN  IF k < Len(items)
           THEN SetCall(c, [calls[c] EXCEPT !.k = k, !.log = log])
           ELSE SetCall(c, [calls[c] EXCEPT !.st = "done", !.k = 0, !.log = log,
                                            !.items = IF tracing THEN items ELSE <<>>])
    /\ UNCHANGED <<clusterVars, configVars, runVars, bulkVars>>

Responses(c) == [1..Len(calls[c].slice) -> Statuses]

RequestEvent ==
    \E c \in 1..Len(calls) :
        \/ FormatterReturns(c)
        \/ BulkFails(c)
        \/ \E items \in Responses(c) : BulkResponds(c, items)
        \/ \E ok \in BOOLEAN : RetryReturns(c, ok)

----------------------------------------------------------------------------
(* Specification of the dispatcher: bulkIndexByChunks called on a body *)

TypeConfig ==
    /\ pjsonVersion \in 1..MaxVersion
    /\ CHUNK_SIZE \in 1..MaxChunkSize
    /\ envMaxConcurrent \in EnvValues
    /\ dataFormatterFn \in BOOLEAN
    /\ transformCsv \in BOOLEAN

InitBulk ==
    /\ pc = "idle"
    /\ body = <<>>
    /\ i = 0
    /\ promises = <<>>
    /\ numberOfChunkRequests = 0
    /\ awaited = 0
    /\ batchBase = 0
    /\ calls = <<>>

\* a body of n write actions with distinct identifiers
MkBody(n, name) == [x \in 1..n |-> WriteAction(Doc(FirstId + x - 1), name)]

InitDispatch ==
    /\ TypeConfig
    /\ transformCsv = TRUE
    /\ pjsonVersion = 1
    /\ now = 2
    /\ indices = {getIndexVersionName(1, 1)}
    /\ aliasBound = {}
    /\ prodSettings = {}
    /\ tracing = FALSE
    /\ journal = <<>>
    /\ runPc = "direct"
    /\ indexName = getIndexVersionName(1, 1)
    /\ isReleaseIndexation = FALSE
    /\ unread = 0
    /\ source = <<>>
    /\ bindedIndexes = {}
    /\ oldIndices = <<>>
    /\ InitBulk

\* bulkIndexByChunks(body, indexConfig, indexName), called directly
CallBulkIndexByChunks ==
    /\ runPc = "direct"
    /\ pc = "idle"
    /\ \E n \in 0..MaxBody : BulkStart(MkBody(n, indexName))
    /\ UNCHANGED <<clusterVars, configVars, runVars>>

NextDispatch ==
    \/ CallBulkIndexByChunks
    \/ SingleResumes
    \/ LoopStep
    \/ RaceResumes
    \/ SeqResumes
    \/ AllResumes
    \/ RequestEvent

SpecDispatch == InitDispatch /\ [][NextDispatch]_vars

----------------------------------------------------------------------------
(* createIndexRelease *)

\* An object is modelled by the function from its keys to its values; an
\* optional field of indexConfig is undefined or an object.
SettingsKeys == {"refresh_interval", "number_of_replicas", "analysis"}
CallerValue  == 1
Undef        == [def |-> FALSE, obj |-> <<>>]
Object(keys) == [def |-> TRUE, obj |-> [key \in keys |-> CallerValue]]
OptionalObjects(keys) == {Undef} \cup {Object(ks) : ks \in SUBSET keys}

\* { ...a, ...b }: the keys of both, b winning on the keys they share
Spread(a, b) ==
    [key \in DOMAIN a \cup DOMAIN b |-> IF key \in DOMAIN b THEN b[key] ELSE a[key]]

\* x && { name: x }, spread: nothing when x is undefined
IfDefined(name, x) ==
    IF x.def THEN [key \in {name} |-> x.obj] ELSE <<>>

\* lines 47-55: the indexing settings
OptimizedSettings ==
    [key \in {"refresh_interval", "number_of_replicas"} |->
        IF key = "refresh_interval" THEN -1 ELSE 0]

\* lines 46-56: the body of client.indices.create
CreateBody(mappings, settings) ==
    Spread(Spread(IfDefined("mappings", mappings),
                  [key \in {"settings"} |-> OptimizedSettings]),
           IfDefined("settings", settings))

\* lines 42-60: a generation named after the version and the clock is
\* created with the indexing settings (it is not given the final settings,
\* and the alias is not touched)
CreateIndexRelease ==
    /\ runPc \in {"idle", "done", "failed"}
    /\ now <= MaxClock
    /\ indices' = indices \cup {getIndexVersionName(pjsonVersion, now)}
    /\ now' = now + 1
    /\ runPc' = "idle"
    /\ IF tracing
       THEN \E mappings \in OptionalObjects({"properties"}),
               settings \in OptionalObjects(SettingsKeys) :
               journal' = <<[t        |-> "create",
                             index    |-> getIndexVersionName(pjsonVersion, now),
                             settings |-> settings,
                             body     |-> CreateBody(mappings, settings)]>>
       ELSE journal' = <<>>
    /\ UNCHANGED <<aliasBound, prodSettings, configVars, indexName, isReleaseIndexation,
                   unread, source, bindedIndexes, oldIndices, bulkVars, calls>>

----------------------------------------------------------------------------
(* getWritableParserAndIndexer and streamReadAndIndex *)

RecordValues == {Undefined, EmptyString, IdKey, FirstId, FirstId + 1}

\* streamReadAndIndex(csvPath, indexName, indexConfig, isReleaseIndexation)
\* up to the await of the pipeline (lines 342-346), on a CSV of rows rows
StartRun(name, release, rows) ==
    /\ runPc \in {"idle", "done", "failed"}
    /\ pc = "idle"
    /\ name \in indices
    /\ runPc' = "streaming"
    /\ indexName' = name
    /\ isReleaseIndexation' = release
    /\ unread' = rows
    /\ source' = <<>>
    /\ bindedIndexes' = {}
    /\ oldIndices' = <<>>
    /\ journal' = <<>>
    /\ calls' = <<>>
    /\ UNCHANGED <<clusterVars, configVars, bulkVars>>

\* the run loads the generation of the latest release
StreamReadAndIndex ==
    \E release \in BOOLEAN, rows \in 0..MaxSource :
        StartRun(getIndexVersionName(pjsonVersion, now - 1), release, rows)

\* lines 347-358: the parser reads the next row and hands it to the
\* transform. The row goes on to the sink only when the transform calls
\* back, which it does only through indexConfig.transformCsv; otherwise the
\* parser waits for the callback for ever.
ParseRow ==
    /\ runPc = "streaming"
    /\ ~MainRunnable
    /\ unread > 0
    /\ transformCsv
    /\ unread' = unread - 1
    /\ \E v \in RecordValues : source' = Append(source, Doc(v))
    /\ UNCHANGED <<clusterVars, configVars, runPc, indexName, isReleaseIndexation,
                   bindedIndexes, oldIndices, bulkVars, calls, journal>>

\* writev (lines 290-329): the sink, free, is handed the rows buffered so far
Writev ==
    /\ runPc = "streaming"
    /\ pc = "idle"
    /\ source # <<>>
    /\ source' = <<>>
    /\ journal' = IF tracing
                  THEN <<[t |-> "writev", csvLines |-> source]>> \o SkipLogs(source, 0)
                  ELSE <<>>
    /\ BulkStart(ParseLines(source, indexName))
    /\ UNCHANGED <<clusterVars, configVars, runPc, indexName, isReleaseIndexation,
                   unread, bindedIndexes, oldIndices>>

\* the locals of bulkIndexByChunks when no activation of it exists
NoActivation ==
    /\ pc' = "idle"
    /\ body' = <<>>
    /\ i' = 0
    /\ promises' = <<>>
    /\ numberOfChunkRequests' = 0
    /\ awaited' = 0
    /\ batchBase' = 0

\* line 328: .then(() => next()); the activation of bulkIndexByChunks is over
SinkNext ==
    /\ runPc = "streaming"
    /\ pc = "resolved"
    /\ NoActivation
    /\ calls' = Unresolved
    /\ journal' = <<>>
    /\ UNCHANGED <<clusterVars, configVars, runPc, indexName, isReleaseIndexation,
                   unread, source, bindedIndexes, oldIndices>>

\* lines 359-361: the parser meets a structural error in the rows not yet
\* read; the handler throws, which ends the run and the process with its
\* activations
SourceError ==
    /\ runPc = "streaming"
    /\ ~MainRunnable
    /\ unread > 0
    /\ runPc' = "aborted"
    /\ unread' = 0
    /\ source' = <<>>
    /\ NoActivation
    /\ calls' = <<>>
    /\ journal' = <<>>
    /\ UNCHANGED <<clusterVars, configVars, indexName, isReleaseIndexation,
                   bindedIndexes, oldIndices>>

\* (variant of PipelineEnds with a slip: isReleaseIndexation not looked at)
PipelineEndsAlwaysFinalizes ==
    /\ runPc = "streaming"
    /\ pc = "idle"
    /\ unread = 0
    /\ source = <<>>
    /\ runPc' = "catAliases"
    /\ UNCHANGED <<clusterVars, configVars, indexName, isReleaseIndexation, unread, source,
                   bindedIndexes, oldIndices, bulkVars, calls, journal>>

\* lines 346-371: the pipeline resolves when the source has ended and the
\* sink has acknowledged its last group; a release run calls
\* finalizeNewIndexRelease, which issues client.cat.aliases (line 71)
PipelineEnds ==
    /\ runPc = "streaming"
    /\ pc = "idle"
    /\ unread = 0
    /\ source = <<>>
    /\ runPc' = IF isReleaseIndexation THEN "catAliases" ELSE "done"
    /\ UNCHANGED <<clusterVars, configVars, indexName, isReleaseIndexation, unread, source,
                   bindedIndexes, oldIndices, bulkVars, calls, journal>>

----------------------------------------------------------------------------
(* finalizeNewIndexRelease *)

\* (variants of AliasActions with a slip: the remove left out, the add left out)
AliasActionsAddOnly(binded, name) ==
    <<[op |-> "add", indices |-> {name}]>>

AliasActionsRemoveOnly(binded, name) ==
    IF binded # {} THEN <<[op |-> "remove", indices |-> binded]>> ELSE <<>>

\* lines 91-96: the action set of the one updateAliases call
AliasActions(binded, name) ==
    (IF binded # {} THEN <<[op |-> "remove", indices |-> binded]>> ELSE <<>>)
    \o <<[op |-> "add", indices |-> {name}]>>

\* the cluster applies the actions of one call in order, as one change
RECURSIVE ApplyAliasActions(_, _)
ApplyAliasActions(bound, actions) ==
    IF actions = <<>> THEN bound
    ELSE LET a == Head(actions)
         IN  ApplyAliasActions(IF a.op = "remove" THEN bound \ a.indices
                                                  ELSE bound \cup a.indices,
                               Tail(actions))

\* client.cat.indices with the pattern `${alias}-${pjson.version}-*`
CatIndices(version) == {n \in indices : n.ver = version}

\* (variant of OldIndices with a slip: the filter on indexName left out)
OldIndicesUnfiltered(listing, name) ==
    Pop(SortNames(listing))

\* lines 109-115: names other than indexName, sorted, without the last
OldIndices(listing, name) ==
    Pop(SortNames({n \in listing : n # name}))

InFinalize == runPc \in {"catAliases", "putSettings", "updateAliases", "catIndices", "delete"}

\* line 71-77: cat.aliases answers; putSettings is issued
CatAliasesResponds ==
    /\ runPc = "catAliases"
    /\ bindedIndexes' = aliasBound
    /\ runPc' = "putSettings"
    /\ UNCHANGED <<clusterVars, configVars, indexName, isReleaseIndexation, unread, source,
                   oldIndices, bulkVars, calls, journal>>

\* lines 77-89: putSettings is applied; updateAliases is issued
PutSettingsResponds ==
    /\ runPc = "putSettings"
    /\ prodSettings' = prodSettings \cup {indexName}
    /\ runPc' = "updateAliases"
    /\ UNCHANGED <<indices, aliasBound, now, configVars, indexName, isReleaseIndexation,
                   unread, source, bindedIndexes, oldIndices, bulkVars, calls, journal>>

\* lines 89-105: updateAliases is applied; cat.indices is issued
UpdateAliasesResponds ==
    /\ runPc = "updateAliases"
    /\ aliasBound' = ApplyAliasActions(aliasBound, AliasActions(bindedIndexes, indexName))
    /\ runPc' = "catIndices"
    /\ UNCHANGED <<indices, prodSettings, now, configVars, indexName, isReleaseIndexation,
                   unread, source, bindedIndexes, oldIndices, bulkVars, calls, journal>>

\* lines 105-120: cat.indices answers; the old indices are computed and, when
\* there are some, indices.delete is issued
CatIndicesResponds ==
    /\ runPc = "catIndices"
    /\ oldIndices' = OldIndices(CatIndices(pjsonVersion), indexName)
    /\ runPc' = IF Len(oldIndices') > 0 THEN "delete" ELSE "done"
    /\ UNCHANGED <<clusterVars, configVars, indexName, isReleaseIndexation, unread, source,
                   bindedIndexes, bulkVars, calls, journal>>

\* lines 120-122: indices.delete is applied (an index goes with its alias)
DeleteResponds ==
    /\ runPc = "delete"
    /\ indices' = indices \ Range(oldIndices)
    /\ aliasBound' = aliasBound \ Range(oldIndices)
    /\ prodSettings' = prodSettings \ Range(oldIndices)
    /\ runPc' = "done"
    /\ UNCHANGED <<now, configVars, indexName, isReleaseIndexation, unread, source,
                   bindedIndexes, oldIndices, bulkVars, calls, journal>>

\* (variant of FinalizeFails with a slip: the rejection of putSettings or of
\* updateAliases is caught and the next call is issued)
FinalizeFailsGoesOn ==
    /\ InFinalize
    /\ runPc' = IF runPc = "putSettings" THEN "updateAliases"
                ELSE IF runPc = "updateAliases" THEN "catIndices"
                ELSE "failed"
    /\ UNCHANGED <<clusterVars, configVars, indexName, isReleaseIndexation, unread, source,
                   bindedIndexes, oldIndices, bulkVars, calls, journal>>

\* a cluster call of finalizeNewIndexRelease rejects: nothing catches it
FinalizeFails ==
    /\ InFinalize
    /\ runPc' = "failed"
    /\ UNCHANGED <<clusterVars, configVars, indexName, isReleaseIndexation, unread, source,
                   bindedIndexes, oldIndices, bulkVars, calls, journal>>

FinalizeStep ==
    \/ CatAliasesResponds
    \/ PutSettingsResponds
    \/ UpdateAliasesResponds
    \/ CatIndicesResponds
    \/ DeleteResponds

----------------------------------------------------------------------------
(* Specification of the roll-over: release and staging runs over an empty   *)
(* source, from any cluster holding generations of the alias                *)

InitialNames == [ver : 1..MaxVersion, ts : 1..MaxStamp]

InitIdleRun ==
    /\ runPc = "idle"
    /\ indexName = NoIndex
    /\ isReleaseIndexation = FALSE
    /\ unread = 0
    /\ source = <<>>
    /\ bindedIndexes = {}
    /\ oldIndices = <<>>
    /\ journal = <<>>

InitFinalize ==
    /\ pjsonVersion \in 1..MaxVersion
    /\ CHUNK_SIZE = 1
    /\ envMaxConcurrent = EnvUnset
    /\ dataFormatterFn = FALSE
    /\ transformCsv = TRUE
    /\ tracing = FALSE
    /\ indices \in {S \in SUBSET InitialNames : Cardinality(S) <= MaxInitial}
    /\ aliasBound \in SUBSET indices
    /\ prodSettings = aliasBound
    /\ now = MaxStamp + 1
    /\ InitIdleRun
    /\ InitBulk

StreamEmptySource ==
    \E name \in indices, release \in BOOLEAN : StartRun(name, release, 0)

NextFinalize ==
    \/ CreateIndexRelease
    \/ StreamEmptySource
    \/ PipelineEnds
    \/ FinalizeStep
    \/ FinalizeFails

SpecFinalize == InitFinalize /\ [][NextFinalize]_vars

----------------------------------------------------------------------------
(* Specification of the pipeline: generations are created and loaded by    *)
(* release and staging runs, starting from the cluster as two earlier       *)
(* releases left it (the last one bound, the one before kept), with the    *)
(* default cap (variable not set) or the cap of an unreadable value        *)

Init ==
    /\ TypeConfig
    /\ pjsonVersion = 1
    /\ envMaxConcurrent \in {EnvUnset, EnvText}
    /\ tracing = FALSE
    /\ indices = {getIndexVersionName(1, MaxStamp - 1), getIndexVersionName(1, MaxStamp)}
    /\ aliasBound = {getIndexVersionName(1, MaxStamp)}
    /\ prodSettings = indices
    /\ now = MaxClock
    /\ InitIdleRun
    /\ InitBulk

Next ==
    \/ CreateIndexRelease
    \/ StreamReadAndIndex
    \/ ParseRow
    \/ Writev
    \/ SinkNext
    \/ SourceError
    \/ PipelineEnds
    \/ FinalizeStep
    \/ FinalizeFails
    \/ SingleResumes
    \/ LoopStep
    \/ RaceResumes
    \/ SeqResumes
    \/ AllResumes
    \/ RequestEvent

Spec == Init /\ [][Next]_vars

----------------------------------------------------------------------------
(* Specification of the pipeline with its history: the same steps, the      *)
(* journal and the log of each activation of request() recorded             *)

InitTrace ==
    /\ TypeConfig
    /\ pjsonVersion = 1
    /\ envMaxConcurrent = EnvText
    /\ transformCsv = TRUE
    /\ tracing = TRUE
    /\ indices = {getIndexVersionName(1, MaxStamp - 1), getIndexVersionName(1, MaxStamp)}
    /\ aliasBound = {getIndexVersionName(1, MaxStamp)}
    /\ prodSettings = indices
    /\ now = MaxClock
    /\ InitIdleRun
    /\ InitBulk

\* with a cap of 2 the branch of line 270 (SeqResumes) is never taken
NextTrace ==
    \/ CreateIndexRelease
    \/ StreamReadAndIndex
    \/ ParseRow
    \/ Writev
    \/ SinkNext
    \/ SourceError
    \/ PipelineEnds
    \/ FinalizeStep
    \/ FinalizeFails
    \/ SingleResumes
    \/ LoopStep
    \/ RaceResumes
    \/ AllResumes
    \/ RequestEvent

SpecTrace == InitTrace /\ [][NextTrace]_vars

\* the steps of a run whose source has no structural error: the handlers
\* of the program and the answers (or failures) of its cluster calls
NormalStep ==
    \/ ParseRow
    \/ Writev
    \/ SinkNext
    \/ PipelineEnds
    \/ SingleResumes
    \/ LoopStep
    \/ RaceResumes
    \/ SeqResumes
    \/ AllResumes
    \/ RequestEvent

\* every handler that can run does run, and every cluster call completes
SpecTraceFair == InitTrace /\ [][NextTrace]_vars /\ WF_vars(NormalStep)

----------------------------------------------------------------------------
(* Properties of the dispatcher (SpecDispatch)                              *)

BatchCalls == (batchBase + 1)..Len(calls)

\* client.bulk calls of the batch that are issued and not answered
InFlight == {c \in BatchCalls : calls[c].st = "bulk"}

\* activations of request() of the batch that have not resolved
Outstanding == {c \in BatchCalls : ~Resolved(c)}

Ceil(n, d) == (n + d - 1) \div d

RECURSIVE ConcatSlices(_)
ConcatSlices(cs) ==
    IF cs = <<>> THEN <<>> ELSE Head(cs).slice \o ConcatSlices(Tail(cs))

\* C1: for a body of at least CHUNK_SIZE actions and a cap M, the number of
\* bulk-write calls started and not yet answered never exceeds M. (Stated
\* for the caps M >= 2 of the claim, where every chunk is submitted once.)
C1_OutstandingWithinCap ==
    (M >= 2 /\ pc # "idle" /\ Len(body) >= CHUNK_SIZE)
        => Cardinality(InFlight) <= M

\* C2: for a cap M >= 1, when bulkIndexByChunks has finished it has issued
\* exactly ceil(N/C) bulk-write calls, each for at most C actions, and the
\* submitted slices concatenated in submission order are the body.
C2_ChunksCoverBody ==
    (M >= 1 /\ pc = "resolved")
        => /\ Cardinality({c \in BatchCalls : calls[c].slice # <<>>})
                 = Ceil(Len(body), CHUNK_SIZE)
           /\ \A c \in BatchCalls : Len(calls[c].slice) <= CHUNK_SIZE
           /\ ConcatSlices(SubSeq(calls, batchBase + 1, Len(calls))) = body

\* C9: with the cap M = 1 at most one call is outstanding at any time and no
\* chunk is submitted twice.
C9_SequentialWhenCapIsOne ==
    (M = 1 /\ pc # "idle")
        => /\ Cardinality(Outstanding) <= 1
           /\ \A c, d \in BatchCalls : c # d => calls[c].slice # calls[d].slice

\* C10: for a cap M >= 1, bulkIndexByChunks resolves only when every call it
\* started for the batch has resolved.
C10_FinishedAfterAllResolved ==
    (M >= 1 /\ pc = "resolved") => Outstanding = {}

----------------------------------------------------------------------------
(* Properties of the pipeline (Spec)                                        *)

\* C3: in a release run with a cap M >= 1, finalize has started (or has
\* returned, the alias being bound to the new generation) only in states
\* where every write call of the run has resolved.
C3_FinalizeAfterWrites ==
    (M >= 1 /\ isReleaseIndexation /\ (InFinalize \/ runPc = "done"))
        => \A c \in 1..Len(calls) : Resolved(c)

----------------------------------------------------------------------------
(* Properties of the roll-over (SpecFinalize)                               *)

Returned == runPc = "done" /\ isReleaseIndexation

\* finalize has read the bound generations and has not failed
AfterCatAliases ==
    /\ isReleaseIndexation
    /\ runPc \in {"putSettings", "updateAliases", "catIndices", "delete", "done"}

Newest(name) == \A g \in indices : g = name \/ NameLess(g, name)

\* C4: after finalize has returned successfully, whatever set of generations
\* was bound before, the alias is bound to the new generation and to no other.
C4_AliasResolvesToNew ==
    Returned => aliasBound = {indexName}

\* a finalize that found several generations bound has returned
C4_Witness ==
    Returned /\ Cardinality(bindedIndexes) >= 2

\* C5: when finalize found exactly one generation bound, the alias is bound
\* to exactly one generation in every later state of finalize.
C5_OneBoundThroughout ==
    ((AfterCatAliases \/ (runPc = "failed" /\ isReleaseIndexation))
        /\ Cardinality(bindedIndexes) = 1)
        => Cardinality(aliasBound) = 1

\* finalize has swapped the alias from one generation to another one and has
\* not returned yet
C5_Witness ==
    /\ isReleaseIndexation
    /\ runPc \in {"catIndices", "delete"}
    /\ Cardinality(bindedIndexes) = 1
    /\ bindedIndexes # {indexName}

\* C6: after finalize has returned successfully for a generation of the
\* current version, the newest of the cluster, at most one other generation
\* remains on the cluster, whatever versions the older generations are of.
C6_AtMostOneOlderRemains ==
    (Returned /\ indexName.ver = pjsonVersion /\ Newest(indexName))
        => Cardinality(indices \ {indexName}) <= 1

\* C7: after finalize has returned for a new generation G2, the newest of the
\* cluster, having found the alias bound to G1 alone, the alias is bound to
\* G2 alone, G1 is still on the cluster and no generation older than G1 is
\* (all the generations being of the current version).
C7_PreviousSurvives ==
    \A g1 \in bindedIndexes :
        (/\ Returned
         /\ bindedIndexes = {g1}
         /\ g1 # indexName
         /\ Newest(indexName)
         /\ \A g \in indices \cup {g1} : g.ver = pjsonVersion)
            => /\ aliasBound = {indexName}
               /\ g1 \in indices
               /\ \A g \in indices : ~NameLess(g, g1)

\* C8: a finalize that finds the alias bound to its target alone leaves it
\* bound to the target alone, and neither lists the target for deletion nor
\* deletes it.
C8_RerunKeepsBinding ==
    (AfterCatAliases /\ bindedIndexes = {indexName})
        => /\ aliasBound = {indexName}
           /\ indexName \in indices
           /\ indexName \notin Range(oldIndices)

\* such a finalize has returned after deleting stale generations
C8_Witness ==
    /\ Returned
    /\ bindedIndexes = {indexName}
    /\ oldIndices # <<>>

----------------------------------------------------------------------------
(* The effects of the activations of request() *)

\* the effects of kind t in the log of call c, in the order emitted
EffectsOf(c, t) == SelectSeq(calls[c].log, LAMBDA e : e.t = t)

\* the items (0-based) of the bulk response of call c inspected so far
Inspected(c) ==
    IF calls[c].st = "retry" THEN 0..calls[c].k
    ELSE IF calls[c].st = "done" THEN 0..(Len(calls[c].items) - 1)
    ELSE {}

\* the inspected items of call c with status in statuses, in increasing order
ItemsWith(c, statuses) ==
    SelectSeq([x \in 1..Len(calls[c].items) |-> x - 1],
              LAMBDA j : j \in Inspected(c) /\ calls[c].items[j + 1] \in statuses)

\* C11: the single-document writes an activation of request() has issued
\* are, in order, one per inspected item whose status is 429, with the
\* identifier at position 2k and the document at position 2k+1 (counted
\* from 0) of the flat body submitted; no other item causes one.
C11_RetryTakesItemK ==
    \A c \in 1..Len(calls) :
        LET flat   == Flat(calls[c].slice)
            writes == EffectsOf(c, "index")
            retry  == ItemsWith(c, {429})
        IN  /\ Len(writes) = Len(retry)
            /\ \A x \in 1..Len(retry) :
                   /\ writes[x].id = flat[2 * retry[x] + 1]._id
                   /\ writes[x].body = flat[2 * retry[x] + 2]

C11_Witness ==
    \E c \in 1..Len(calls) :
        /\ calls[c].st = "done"
        /\ calls[c].items = <<201, 429>>
        /\ calls[c].slice[1][2] # calls[c].slice[2][2]
        /\ Len(EffectsOf(c, "index")) = 1

\* the activations of request() whose client.bulk failed as a whole
Failed == {c \in 1..Len(calls) : Len(EffectsOf(c, "fatal")) > 0}

C12_LoggedNotRetried ==
    \A c \in Failed :
        /\ calls[c].st = "done"
        /\ Len(EffectsOf(c, "fatal")) = 1
        /\ Len(EffectsOf(c, "bulk")) = 1
        /\ Len(EffectsOf(c, "index")) = 0

\* C12: a client.bulk that fails as a whole is logged once, the chunk is
\* not sent again (one client.bulk, no client.index) and request() resolves
\* normally; so the batch and the later batches go on, and a release run in
\* which it happened still gets to finalizeNewIndexRelease (unless a
\* structural error of the source ends it).
C12_TransportFailureSwallowed ==
    /\ []C12_LoggedNotRetried
    /\ (runPc = "streaming" /\ isReleaseIndexation /\ Failed # {})
           ~> (runPc \in {"catAliases", "aborted"})

C12_Witness ==
    /\ runPc = "streaming"
    /\ isReleaseIndexation
    /\ unread > 0
    /\ Failed # {}

\* C13: every inspected item whose error has a status other than 429 is
\* logged once at error level with its status (and error) and the document
\* at position 2k+1 of the flat body; no single-document write is issued
\* for it; the items after it are inspected all the same, and the
\* activation resolves normally once the response holds no item left to retry.
C13_ItemErrorLoggedOnly ==
    \A c \in 1..Len(calls) :
        LET flat   == Flat(calls[c].slice)
            other  == ItemsWith(c, Statuses \ {201, 429})
            logged == SelectSeq(EffectsOf(c, "bulkError"), LAMBDA e : e.status # 429)
        IN  /\ Len(logged) = Len(other)
            /\ \A x \in 1..Len(other) :
                   /\ logged[x].status = calls[c].items[other[x] + 1]
                   /\ logged[x].body = flat[2 * other[x] + 2]
            /\ Len(EffectsOf(c, "index")) = Len(ItemsWith(c, {429}))
            /\ calls[c].st \in {"fmt", "bulk", "retry", "done"}
            /\ (calls[c].items # <<>> /\ 429 \notin Range(calls[c].items))
                   => calls[c].st = "done"

C13_Witness ==
    \E c \in 1..Len(calls) :
        /\ calls[c].st = "done"
        /\ calls[c].items = <<409, 429>>
        /\ calls[c].slice[1][2] # calls[c].slice[2][2]
        /\ Len(EffectsOf(c, "bulkError")) = 2

----------------------------------------------------------------------------
(* The end of a run *)

\* a step that changes what finalizeNewIndexRelease changes on the cluster:
\* the final settings, the alias binding, or the set of indices by a deletion
FinalizeEffect ==
    \/ prodSettings' # prodSettings
    \/ aliasBound' # aliasBound
    \/ ~(indices \subseteq indices')

\* C14: the pipeline goes on to finalizeNewIndexRelease exactly when the
\* run is a release run and the source has ended with every group
\* acknowledged; a staging run leaves the alias binding as it is; a run
\* ended by a structural error of the source does nothing further: no
\* settings update, no alias change, no deletion.
C14_FinalizeOnlyOnReleaseEnd ==
    /\ [](InFinalize => /\ isReleaseIndexation
                        /\ unread = 0 /\ source = <<>> /\ pc = "idle")
    /\ [][ /\ (runPc = "streaming" /\ runPc' \notin {"streaming", "aborted"})
                => /\ unread = 0 /\ source = <<>>
                   /\ (runPc' = "catAliases") <=> isReleaseIndexation
                   /\ (runPc' = "done") <=> ~isReleaseIndexation
           /\ ~isReleaseIndexation' => aliasBound' = aliasBound
           /\ FinalizeEffect => (InFinalize /\ isReleaseIndexation)
           /\ (runPc = "aborted" \/ runPc' = "aborted")
                => (runPc' = "aborted" /\ UNCHANGED clusterVars) ]_vars

C14_Witness ==
    /\ runPc = "done"
    /\ ~isReleaseIndexation
    /\ indexName \in indices \ aliasBound
    /\ aliasBound # {}

\* C15: a run whose source raises no structural error never stalls: as long
\* as it is reading and indexing, a handler of the program can run or a
\* cluster call it waits for can complete (so that, every call completing,
\* it consumes the whole source and ends), whether or not
\* indexConfig.transformCsv is supplied.
C15_NeverStalls ==
    runPc = "streaming" => ENABLED NormalStep

----------------------------------------------------------------------------
(* The write sink *)

\* the sink is running writev on a group of records
InWritev == journal # <<>> /\ journal[1].t = "writev"

NoIdentifier(doc) == doc.id = Undefined \/ doc.id = EmptyString
HeaderEcho(doc)   == doc.id = IdKey

\* C16: of the group given to the sink, the records without identifier
\* (absent or empty) give one error log entry each, in order, and no write
\* action; the records whose identifier is the name of the column give
\* neither; the other records give, in input order, one write action each:
\* index, with the identifier of the record as id and the generation being
\* loaded as target, paired with the record.
C16_GroupToActions ==
    InWritev =>
        LET group == journal[1].csvLines
            logs  == Tail(journal)
            bad   == SelectSeq(group, NoIdentifier)
            good  == SelectSeq(group, LAMBDA d : ~NoIdentifier(d) /\ ~HeaderEcho(d))
        IN  /\ Len(logs) = Len(bad)
            /\ \A x \in 1..Len(bad) : logs[x].t = "skip" /\ logs[x].doc = bad[x]
            /\ Len(body) = Len(good)
            /\ \A x \in 1..Len(good) :
                   /\ body[x][1]._id = good[x].id
                   /\ body[x][1]._index = indexName
                   /\ body[x][2] = good[x]

C16_Witness ==
    /\ InWritev
    /\ journal[1].csvLines = <<Doc(EmptyString), Doc(FirstId)>>
    /\ Len(body) = 1
    /\ Len(journal) = 2

----------------------------------------------------------------------------
(* createIndexRelease *)

\* C17: in the create request, every key of the indexing settings that the
\* caller's settings do not override (refresh_interval, number_of_replicas)
\* keeps its indexing value, whatever settings object the caller supplies.
C17_OptimizedKeysKept ==
    (journal # <<>> /\ journal[1].t = "create") =>
        LET caller == journal[1].settings
            sent   == journal[1].body
        IN  \A key \in DOMAIN OptimizedSettings :
                (~caller.def \/ key \notin DOMAIN caller.obj)
                    => /\ "settings" \in DOMAIN sent
                       /\ key \in DOMAIN sent["settings"]
                       /\ sent["settings"][key] = OptimizedSettings[key]

----------------------------------------------------------------------------
(* The cap of the dispatcher *)

\* bulkIndexByChunks has read its cap (lines 249-253) and is in its loop
CapInUse == pc \in {"loop", "race", "seq", "all"}

\* C18: the cap bulkIndexByChunks works with is 2 when
\* TD_SIRENE_INDEX_MAX_CONCURRENT_REQUESTS is not set, and the value of the
\* option when it is set to an integer.
C18_DefaultCapIsTwo ==
    CapInUse =>
        /\ envMaxConcurrent.kind = "unset" => M = 2
        /\ envMaxConcurrent.kind = "int" => M = envMaxConcurrent.val

\* C19: with a cap M > 1 the in-flight counter never falls below the number
\* of chunk calls started and not resolved: it is decremented only for a
\* call that was outstanding and has resolved, each completion counted once.
C19_CounterCoversOutstanding ==
    (M > 1 /\ CapInUse) => numberOfChunkRequests >= Cardinality(Outstanding)

----------------------------------------------------------------------------
(* Failure of a step of finalizeNewIndexRelease *)

\* C20: a cluster call of finalizeNewIndexRelease that fails ends it: the
\* failing call changes nothing and no later step of that finalize runs. So
\* the alias is changed only once the settings update has been applied, and
\* an index is deleted only when the alias is bound to the new generation
\* alone (settings update and alias swap both applied).
C20_FailureStopsFinalize ==
    [][ /\ (InFinalize /\ runPc' = "failed") => UNCHANGED clusterVars
        /\ runPc = "failed" => /\ runPc' \in {"failed", "idle", "streaming"}
                               /\ ~FinalizeEffect
        /\ aliasBound' # aliasBound => indexName \in prodSettings
        /\ ~(indices \subseteq indices')
              => (aliasBound = {indexName} /\ indexName \in prodSettings) ]_vars

\* the alias swap has failed after the settings update was applied
C20_Witness ==
    /\ runPc = "failed"
    /\ isReleaseIndexation
    /\ indexName \in prodSettings
    /\ indexName \notin aliasBound
    /\ aliasBound = bindedIndexes
    /\ oldIndices = <<>>

====
